---- MODULE Spec2Model ----
(***************************************************************************)
(* Model of src/app.py: the Flask upload() handler that converts a scanned *)
(* PDF into a PDF with the page image, the OCR text and an optional        *)
(* rendered formula on every page.                                         *)
(*                                                                         *)
(* Each request of Reqs is one invocation of upload() on a thread of the   *)
(* Flask server; the threads share the uploads/ and outputs/ directories.  *)
(* A step of a request is one stretch of upload() between two accesses to  *)
(* the shared file system (or one external call).                          *)
(*                                                                         *)
(* Strings that the code splits are sequences of one-character strings.    *)
(* Lengths on the page are exact rationals <<numerator, denominator>> in   *)
(* points; floating-point rounding is not modelled.                        *)
(***************************************************************************)
EXTENDS Integers, Sequences, FiniteSets, TLC

VARIABLES
    MATHPIX_APP_ID,   \* module global, line 24
    MATHPIX_APP_KEY,  \* module global, line 25
    clients,          \* what each client sends: the form and its document
    pdf_files,        \* uploads/<pdf_filename>: the document stored there
    page_files,       \* uploads/page_<k>.png: the raster stored there
    tmp_files,        \* the NamedTemporaryFile files that exist
    outputs,          \* outputs/<out_name>: the finished document
    fonts,            \* pdfmetrics' registry: the font registered as 'UserHand'
    pc,               \* where each request is in upload()
    pdf_filename,     \* local of upload()
    font_path,        \* local of upload()
    pages,            \* local of upload(): the rasters of convert_from_path
    i,                \* number of completed iterations of the current loop
    page_images,      \* local of upload()
    extracted_texts,  \* local of upload()
    math_images,      \* local of upload()
    img_b64,          \* local of upload()
    mp_res,           \* local of upload()
    chosen_font,      \* local of upload()
    c,                \* the reportlab canvas: the pages shown so far
    flashes,          \* the messages flashed to the user
    posts,            \* number of requests.post calls the request has made
    raised            \* the stage whose exception ended the request

vars == << MATHPIX_APP_ID, MATHPIX_APP_KEY, clients, pdf_files, page_files,
           tmp_files, outputs, fonts, pc, pdf_filename, font_path, pages, i,
           page_images, extracted_texts, math_images, img_b64, mp_res,
           chosen_font, c, flashes, posts, raised >>

shared == << MATHPIX_APP_ID, MATHPIX_APP_KEY, clients >>

----------------------------------------------------------------------------
(* Bounds *)

\* Largest number of pages a source document rasterizes to.
MaxPages == 3

\* Largest number of pages of a document when two requests run concurrently.
MaxPagesConcurrent == 1

\* The requests; request r uploads the source document r.
Reqs == {"r1", "r2"}

\* The only client when one request is served.
OneClient == {"r1"}

\* Python's None; every optional value of the model is None or a record.
None == [py |-> "None"]

Str(s) == [str |-> s]

\* Values of an environment variable: unset, empty, or a non-empty string.
EnvValues == {None, Str(<< >>), Str(<<"secret">>)}

\* File names a client may send in the 'pdf' part of the form.
FileNames ==
    { << >>,
      <<"a", ".", "p", "d", "f">>,
      <<"b", ".", "P", "D", "F">>,
      <<"n", ".", "t", "x", "t">>,
      <<"p", "d", "f">> }

\* File names a client may send in the 'font' part of the form.
FontNames == { << >>, <<"h", ".", "t", "t", "f">> }

\* Pixel sizes <<width, height>> of a rendered formula.
ImageSizes == { <<267, 40>>, <<268, 40>>, <<1000, 90>> }

----------------------------------------------------------------------------
(* Program constants *)

ALLOWED_EXTENSIONS == { <<"p", "d", "f">> }

\* reportlab's A4 is (210 mm, 297 mm) with 1 mm = 72/25.4 pt, so the width is
\* 75600/127 pt and the height 106920/127 pt.
A4 == << <<75600, 127>>, <<106920, 127>> >>

\* 0.45 as a rational.
MaxWidthShare == <<45, 100>>

FontSize == 12

MaxLineChars == 200

----------------------------------------------------------------------------
(* Rationals *)

\* F(v), with v evaluated once.
With(v, F(_)) == CHOOSE y \in { F(x) : x \in {v} } : TRUE

RECURSIVE GCD(_)
GCD(p) == IF p[2] = 0 THEN p[1] ELSE With(<< p[2], p[1] % p[2] >>, GCD)

\* The rational in lowest terms.
Norm(q) ==
    With(<< q, GCD(q) >>, LAMBDA p : << p[1][1] \div p[2], p[1][2] \div p[2] >>)

RMul(a, b) ==
    With(<< a, b >>, LAMBDA p : Norm(<< p[1][1] * p[2][1], p[1][2] * p[2][2] >>))

RDiv(a, b) ==
    With(<< a, b >>, LAMBDA p : Norm(<< p[1][1] * p[2][2], p[1][2] * p[2][1] >>))

RSub(a, b) ==
    With(<< a, b >>,
         LAMBDA p : Norm(<< p[1][1] * p[2][2] - p[2][1] * p[1][2], p[1][2] * p[2][2] >>))

RInt(n) == << n, 1 >>

RLess(a, b) == a[1] * b[2] < b[1] * a[2]

REq(a, b) == a[1] * b[2] = b[1] * a[2]

RMin(a, b) == IF RLess(b, a) THEN b ELSE a

----------------------------------------------------------------------------
(* Pure functions *)

Min(a, b) == IF a < b THEN a ELSE b

\* Index of the last '.' of s, 0 when there is none.
LastDot(s) ==
    LET dots == { k \in 1..Len(s) : s[k] = "." }
    IN  IF dots = {} THEN 0 ELSE CHOOSE k \in dots : \A m \in dots : m <= k

LowerChar(ch) ==
    CASE ch = "P" -> "p"
      [] ch = "D" -> "d"
      [] ch = "F" -> "f"
      [] OTHER -> ch

lower(s) == [ k \in 1..Len(s) |-> LowerChar(s[k]) ]

\* filename.rsplit('.', 1)[1]
Extension(s) == SubSeq(s, LastDot(s) + 1, Len(s))

\* filename.rsplit('.', 1)[0]
Stem(s) == IF LastDot(s) = 0 THEN s ELSE SubSeq(s, 1, LastDot(s) - 1)

allowed_file(filename) ==
    /\ LastDot(filename) > 0
    /\ lower(Extension(filename)) \in ALLOWED_EXTENSIONS

\* werkzeug's secure_filename: keeps letters, digits, '.', '_' and '-', and
\* strips leading and trailing '.' and '_'.
SafeChars == {"a", "b", "n", "p", "d", "f", "t", "x", "h", "P", "D", "F", ".", "_", "-"}

RECURSIVE Strip(_)
Strip(s) ==
    IF s = << >> THEN s
    ELSE IF Head(s) \in {".", "_"} THEN Strip(Tail(s))
    ELSE IF s[Len(s)] \in {".", "_"} THEN Strip(SubSeq(s, 1, Len(s) - 1))
    ELSE s

secure_filename(s) == Strip(SelectSeq(s, LAMBDA ch : ch \in SafeChars))

OutName(name) == Stem(name) \o <<"_converted.pdf">>

\* The rasters of the n pages of document d.
Rasters(d, n) == [ k \in 1..n |-> [doc |-> d, page |-> k] ]

\* pytesseract.image_to_string: the text of a raster, as the lengths of its
\* lines; page k of a document has k lines, the last one 100 * k + 50 long.
image_to_string(img) ==
    [src |-> img, lines |-> [ k \in 1..img.page |-> 100 * k + 50 ]]

\* line[:200] of every line of text.splitlines()
TextLines(text) == [ k \in 1..Len(text.lines) |-> Min(text.lines[k], MaxLineChars) ]

\* not MATHPIX_APP_ID or not MATHPIX_APP_KEY
Falsy(v) == v = None \/ v = Str(<< >>)

\* Variant: the integration is off only when both credentials are missing.
UnconfiguredBoth == Falsy(MATHPIX_APP_ID) /\ Falsy(MATHPIX_APP_KEY)

Unconfigured == Falsy(MATHPIX_APP_ID) \/ Falsy(MATHPIX_APP_KEY)

\* The bodies the recognition service may answer with status 200: an object
\* without the field, with an empty formula, or with the formula of the image.
JsonBodies(b64) ==
    { [latex_simplified |-> None],
      [latex_simplified |-> Str(<< >>)],
      [latex_simplified |-> [str |-> <<"latex">>, of |-> b64]] }

\* mp_res and mp_res.get('latex_simplified')
Usable(res) == res # None /\ ~Falsy(res.latex_simplified)

\* Variant: the scale is not capped at 1.0.
OverlayUncapped(img) ==
    LET width  == A4[1]
        height == A4[2]
        img_w  == RInt(img.size[1])
        img_h  == RInt(img.size[2])
        max_w  == RMul(width, MaxWidthShare)
        scale  == RDiv(max_w, img_w)
        draw_w == RMul(img_w, scale)
        draw_h == RMul(img_h, scale)
    IN  [ image |-> img,
          scale |-> scale,
          x |-> RSub(RSub(width, draw_w), RInt(30)),
          y |-> RSub(RSub(height, draw_h), RInt(60)),
          width |-> draw_w,
          height |-> draw_h ]

\* The formula overlay of one page: size and place of the drawn image.
Overlay(img) ==
    LET width  == A4[1]
        height == A4[2]
        img_w  == RInt(img.size[1])
        img_h  == RInt(img.size[2])
        max_w  == RMul(width, MaxWidthShare)
        scale  == RMin(RInt(1), RDiv(max_w, img_w))
        draw_w == RMul(img_w, scale)
        draw_h == RMul(img_h, scale)
    IN  [ image |-> img,
          scale |-> scale,
          x |-> RSub(RSub(width, draw_w), RInt(30)),
          y |-> RSub(RSub(height, draw_h), RInt(60)),
          width |-> draw_w,
          height |-> draw_h ]

\* Where the loop over `seq` goes after k completed iterations.
LoopNext(seq, k, body, exit) == IF k < Len(seq) THEN body ELSE exit

----------------------------------------------------------------------------
(* The state after the server has started; no request has arrived yet *)

\* The forms a client may post: each part is missing (None) or a file.
Forms ==
    [ pdf  : {None} \cup { [filename |-> f] : f \in FileNames },
      font : {None} \cup { [filename |-> f] : f \in FontNames } ]

UploadNames == { secure_filename(f) : f \in { g \in FileNames : allowed_file(g) } }

OutNames == { OutName(f) : f \in UploadNames }

InitRequests ==
    /\ pdf_files = [ f \in UploadNames |-> None ]
    /\ page_files = [ k \in 1..MaxPages |-> None ]
    /\ tmp_files = {}
    /\ outputs = [ f \in OutNames |-> None ]
    /\ fonts = None
    /\ pc = [ r \in Reqs |-> "request" ]
    /\ pdf_filename = [ r \in Reqs |-> << >> ]
    /\ font_path = [ r \in Reqs |-> None ]
    /\ pages = [ r \in Reqs |-> << >> ]
    /\ i = [ r \in Reqs |-> 0 ]
    /\ page_images = [ r \in Reqs |-> << >> ]
    /\ extracted_texts = [ r \in Reqs |-> << >> ]
    /\ math_images = [ r \in Reqs |-> << >> ]
    /\ img_b64 = [ r \in Reqs |-> None ]
    /\ mp_res = [ r \in Reqs |-> None ]
    /\ chosen_font = [ r \in Reqs |-> "unset" ]
    /\ c = [ r \in Reqs |-> << >> ]
    /\ flashes = [ r \in Reqs |-> << >> ]
    /\ posts = [ r \in Reqs |-> 0 ]
    /\ raised = [ r \in Reqs |-> "none" ]

\* A source document: malformed, or well-formed with up to n pages.
Documents(n) ==
    { [wellformed |-> FALSE, npages |-> 0] }
    \cup { [wellformed |-> TRUE, npages |-> k] : k \in 0..n }

\* One request, for every form, document and configuration of the credentials.
Init ==
    /\ MATHPIX_APP_ID \in EnvValues
    /\ MATHPIX_APP_KEY \in EnvValues
    /\ clients \in [ OneClient -> [form : Forms, doc : Documents(MaxPages)] ]
    /\ InitRequests

\* Two concurrent requests that pass the validation of the form.
InitConcurrent ==
    /\ MATHPIX_APP_ID \in {None, Str(<<"secret">>)}
    /\ MATHPIX_APP_KEY = Str(<<"secret">>)
    /\ clients \in [ Reqs -> [form : { f \in Forms : f.pdf # None /\ f.pdf.filename # << >> },
                              doc : Documents(MaxPagesConcurrent)] ]
    /\ InitRequests

----------------------------------------------------------------------------
(* upload(), lines 75-160 *)

\* Lines 76-95: validation of the form, saving of the uploaded files.
Upload(r) ==
    /\ pc[r] = "request"
    /\ r \in DOMAIN clients
    /\ LET form == clients[r].form
           reject(msg) ==
                 /\ flashes' = [flashes EXCEPT ![r] = Append(@, msg)]
                 /\ pc' = [pc EXCEPT ![r] = "redirect_index"]
                 /\ UNCHANGED << pdf_filename, pdf_files, font_path >>
       IN  IF form.pdf = None THEN reject("No PDF file part")
           ELSE IF form.pdf.filename = << >> THEN reject("No selected file")
           ELSE IF ~allowed_file(form.pdf.filename) THEN reject("Invalid file type")
           ELSE LET name == secure_filename(form.pdf.filename) IN
                /\ pdf_filename' = [pdf_filename EXCEPT ![r] = name]
                /\ pdf_files' = [pdf_files EXCEPT ![name] = [doc |-> r]]
                /\ font_path' = [font_path EXCEPT ![r] =
                      IF form.font # None /\ form.font.filename # << >>
                      THEN [path |-> secure_filename(form.font.filename)]
                      ELSE None]
                /\ pc' = [pc EXCEPT ![r] = "convert"]
                /\ UNCHANGED flashes
    /\ UNCHANGED << shared, fonts, page_files, tmp_files, outputs, pages, i, page_images,
                    extracted_texts, math_images, img_b64, mp_res, chosen_font,
                    c, posts, raised >>

\* Lines 97-105: convert_from_path raises on a malformed document, and
\* otherwise returns the rasters of the document that is stored there now.
Convert(r) ==
    /\ pc[r] = "convert"
    /\ \/ /\ ~clients[pdf_files[pdf_filename[r]].doc].doc.wellformed
          /\ flashes' = [flashes EXCEPT ![r] = Append(@, "Error converting PDF to images")]
          /\ raised' = [raised EXCEPT ![r] = "convert_from_path"]
          /\ pc' = [pc EXCEPT ![r] = "redirect_index"]
          /\ UNCHANGED << pages, i, page_images, extracted_texts, math_images >>
       \/ /\ clients[pdf_files[pdf_filename[r]].doc].doc.wellformed
          /\ LET d == pdf_files[pdf_filename[r]].doc IN
             pages' = [pages EXCEPT ![r] = Rasters(d, clients[d].doc.npages)]
          /\ extracted_texts' = [extracted_texts EXCEPT ![r] = << >>]
          /\ page_images' = [page_images EXCEPT ![r] = << >>]
          /\ math_images' = [math_images EXCEPT ![r] = << >>]
          /\ i' = [i EXCEPT ![r] = 0]
          /\ pc' = [pc EXCEPT ![r] = LoopNext(pages'[r], 0, "page_save", "assemble")]
          /\ UNCHANGED << flashes, raised >>
    /\ UNCHANGED << shared, fonts, pdf_files, page_files, tmp_files, outputs, pdf_filename,
                    font_path, img_b64, mp_res, chosen_font, c, posts >>

\* Lines 107-110: the raster of page i+1 is written to uploads/page_<i+1>.png.
PageSave(r) ==
    /\ pc[r] = "page_save"
    /\ LET img_path == i[r] + 1 IN
       /\ page_files' = [page_files EXCEPT ![img_path] = pages[r][i[r] + 1]]
       /\ page_images' = [page_images EXCEPT ![r] = Append(@, img_path)]
    /\ pc' = [pc EXCEPT ![r] = "ocr"]
    /\ UNCHANGED << shared, fonts, pdf_files, tmp_files, outputs, pdf_filename, font_path,
                    pages, i, extracted_texts, math_images, img_b64, mp_res,
                    chosen_font, c, flashes, posts, raised >>

\* Lines 112-113: OCR of the file as it is now; its exception is not caught.
Ocr(r) ==
    /\ pc[r] = "ocr"
    /\ LET img_path == page_images[r][i[r] + 1] IN
       \/ /\ raised' = [raised EXCEPT ![r] = "image_to_string"]
          /\ pc' = [pc EXCEPT ![r] = "error_500"]
          /\ UNCHANGED extracted_texts
       \/ /\ extracted_texts' = [extracted_texts EXCEPT ![r] =
                Append(@, image_to_string(page_files[img_path]))]
          /\ pc' = [pc EXCEPT ![r] = "encode"]
          /\ UNCHANGED raised
    /\ UNCHANGED << shared, fonts, pdf_files, page_files, tmp_files, outputs, pdf_filename,
                    font_path, pages, i, page_images, math_images, img_b64, mp_res,
                    chosen_font, c, flashes, posts >>

\* Lines 115-116: the file is read again and encoded.
Encode(r) ==
    /\ pc[r] = "encode"
    /\ img_b64' = [img_b64 EXCEPT ![r] = page_files[page_images[r][i[r] + 1]]]
    /\ pc' = [pc EXCEPT ![r] = "mathpix"]
    /\ UNCHANGED << shared, fonts, pdf_files, page_files, tmp_files, outputs, pdf_filename,
                    font_path, pages, i, page_images, extracted_texts, math_images,
                    mp_res, chosen_font, c, flashes, posts, raised >>

\* What requests.post may do: raise (connection error, timeout, a body that is
\* not JSON), or return a response with a status and a JSON object.
ServiceReplies(b64) ==
    { [kind |-> "exception"], [kind |-> "response", status_code |-> 500] }
    \cup { [kind |-> "response", status_code |-> 200, json |-> b] : b \in JsonBodies(b64) }

\* Lines 48-57: what call_mathpix_image_b64 returns for a reply.
MathpixResult(reply) ==
    IF reply.kind = "response" /\ reply.status_code = 200 THEN reply.json ELSE None

\* Variant: the exception of requests.post is not caught.
MathpixPropagates(r) ==
    /\ pc[r] = "mathpix"
    /\ IF Unconfigured
       THEN /\ mp_res' = [mp_res EXCEPT ![r] = None]
            /\ pc' = [pc EXCEPT ![r] = "render"]
            /\ UNCHANGED << posts, raised >>
       ELSE /\ posts' = [posts EXCEPT ![r] = @ + 1]
            /\ \E reply \in ServiceReplies(img_b64[r]) :
                 IF reply.kind = "exception"
                 THEN /\ raised' = [raised EXCEPT ![r] = "requests.post"]
                      /\ pc' = [pc EXCEPT ![r] = "error_500"]
                      /\ UNCHANGED mp_res
                 ELSE /\ mp_res' = [mp_res EXCEPT ![r] = MathpixResult(reply)]
                      /\ pc' = [pc EXCEPT ![r] = "render"]
                      /\ UNCHANGED raised
    /\ UNCHANGED << shared, fonts, pdf_files, page_files, tmp_files, outputs, pdf_filename,
                    font_path, pages, i, page_images, extracted_texts, math_images,
                    img_b64, chosen_font, c, flashes >>

\* Variant: the call is repeated after a reply that is not a 200 response.
MathpixRetries(r) ==
    /\ pc[r] = "mathpix"
    /\ IF Unconfigured
       THEN /\ mp_res' = [mp_res EXCEPT ![r] = None]
            /\ pc' = [pc EXCEPT ![r] = "render"]
            /\ UNCHANGED posts
       ELSE /\ posts' = [posts EXCEPT ![r] = @ + 1]
            /\ \E reply \in ServiceReplies(img_b64[r]) :
                 /\ mp_res' = [mp_res EXCEPT ![r] = MathpixResult(reply)]
                 /\ pc' = [pc EXCEPT ![r] =
                       IF MathpixResult(reply) = None THEN "mathpix" ELSE "render"]
    /\ UNCHANGED << shared, fonts, pdf_files, page_files, tmp_files, outputs, pdf_filename,
                    font_path, pages, i, page_images, extracted_texts, math_images,
                    img_b64, chosen_font, c, flashes, raised >>

\* Line 117 and lines 35-57: call_mathpix_image_b64(img_b64).
Mathpix(r) ==
    /\ pc[r] = "mathpix"
    /\ IF Unconfigured
       THEN /\ mp_res' = [mp_res EXCEPT ![r] = None]
            /\ UNCHANGED posts
       ELSE /\ posts' = [posts EXCEPT ![r] = @ + 1]
            /\ \E reply \in ServiceReplies(img_b64[r]) :
                 mp_res' = [mp_res EXCEPT ![r] = MathpixResult(reply)]
    /\ pc' = [pc EXCEPT ![r] = "render"]
    /\ UNCHANGED << shared, fonts, pdf_files, page_files, tmp_files, outputs, pdf_filename,
                    font_path, pages, i, page_images, extracted_texts, math_images,
                    img_b64, chosen_font, c, flashes, raised >>

\* Lines 59-72: render_latex_to_png returns an image, or None when savefig raises.
RenderResults(latex) ==
    {None} \cup { [size |-> s, latex |-> latex] : s \in ImageSizes }

\* Variant: a page without a formula image adds nothing to math_images.
RenderSkipsMissing(r) ==
    /\ pc[r] = "render"
    /\ IF Usable(mp_res[r])
       THEN \E latex_png \in RenderResults(mp_res[r].latex_simplified) :
               math_images' = [math_images EXCEPT ![r] =
                   IF latex_png = None THEN @ ELSE Append(@, latex_png)]
       ELSE UNCHANGED math_images
    /\ i' = [i EXCEPT ![r] = @ + 1]
    /\ pc' = [pc EXCEPT ![r] = LoopNext(pages[r], i[r] + 1, "page_save", "assemble")]
    /\ UNCHANGED << shared, fonts, pdf_files, page_files, tmp_files, outputs, pdf_filename,
                    font_path, pages, page_images, extracted_texts, img_b64, mp_res,
                    chosen_font, c, flashes, posts, raised >>

\* Lines 118-122, and the loop's step to the next page.
Render(r) ==
    /\ pc[r] = "render"
    /\ IF Usable(mp_res[r])
       THEN \E latex_png \in RenderResults(mp_res[r].latex_simplified) :
               math_images' = [math_images EXCEPT ![r] = Append(@, latex_png)]
       ELSE math_images' = [math_images EXCEPT ![r] = Append(@, None)]
    /\ i' = [i EXCEPT ![r] = @ + 1]
    /\ pc' = [pc EXCEPT ![r] = LoopNext(pages[r], i[r] + 1, "page_save", "assemble")]
    /\ UNCHANGED << shared, fonts, pdf_files, page_files, tmp_files, outputs, pdf_filename,
                    font_path, pages, page_images, extracted_texts, img_b64, mp_res,
                    chosen_font, c, flashes, posts, raised >>

\* Variant: 'UserHand' is chosen whether or not the registration succeeded.
ChosenFontAlways(registered) == "UserHand"

\* Lines 130-135: the font chosen after registerFont returned or raised.
ChosenFont(registered) == IF registered THEN "UserHand" ELSE "Helvetica"

\* Variant: the canvas creates its file, empty, when it is constructed.
CanvasFilesEager(r) ==
    [outputs EXCEPT ![OutName(pdf_filename[r])] = [by |-> r, pages |-> << >>]]

\* Line 126: the outputs directory after canvas.Canvas(out_path); reportlab
\* writes no file before save().
CanvasFiles(r) == outputs

\* Variant: the exception of the font registration is not caught.
AssembleFontRaises(r) ==
    /\ pc[r] = "assemble"
    /\ c' = [c EXCEPT ![r] = << >>]
    /\ outputs' = CanvasFiles(r)
    /\ IF font_path[r] # None
       THEN \E registered \in BOOLEAN :
               IF registered
               THEN /\ fonts' = [path |-> font_path[r].path, by |-> r]
                    /\ chosen_font' = [chosen_font EXCEPT ![r] = "UserHand"]
                    /\ i' = [i EXCEPT ![r] = 0]
                    /\ pc' = [pc EXCEPT ![r] = LoopNext(page_images[r], 0, "compose", "save")]
                    /\ UNCHANGED raised
               ELSE /\ raised' = [raised EXCEPT ![r] = "registerFont"]
                    /\ pc' = [pc EXCEPT ![r] = "error_500"]
                    /\ UNCHANGED << fonts, chosen_font, i >>
       ELSE /\ chosen_font' = [chosen_font EXCEPT ![r] = "Helvetica"]
            /\ i' = [i EXCEPT ![r] = 0]
            /\ pc' = [pc EXCEPT ![r] = LoopNext(page_images[r], 0, "compose", "save")]
            /\ UNCHANGED << fonts, raised >>
    /\ UNCHANGED << shared, pdf_files, page_files, tmp_files, pdf_filename,
                    font_path, pages, page_images, extracted_texts, math_images,
                    img_b64, mp_res, flashes, posts >>

\* Lines 124-137: the canvas is created, and the font is registered; TTFont
\* or registerFont may raise, which is caught.
Assemble(r) ==
    /\ pc[r] = "assemble"
    /\ c' = [c EXCEPT ![r] = << >>]
    /\ outputs' = CanvasFiles(r)
    /\ IF font_path[r] # None
       THEN \E registered \in BOOLEAN :
               /\ fonts' = IF registered THEN [path |-> font_path[r].path, by |-> r]
                                         ELSE fonts
               /\ chosen_font' = [chosen_font EXCEPT ![r] = ChosenFont(registered)]
       ELSE /\ chosen_font' = [chosen_font EXCEPT ![r] = "Helvetica"]
            /\ UNCHANGED fonts
    /\ i' = [i EXCEPT ![r] = 0]
    /\ pc' = [pc EXCEPT ![r] = LoopNext(page_images[r], 0, "compose", "save")]
    /\ UNCHANGED << shared, pdf_files, page_files, tmp_files, pdf_filename,
                    font_path, pages, page_images, extracted_texts, math_images,
                    img_b64, mp_res, flashes, posts, raised >>

\* Lines 140-156: one page of the output document.
OutputPage(r, k) ==
    [ image   |-> page_files[page_images[r][k]],
      formula |-> IF math_images[r][k] # None THEN Overlay(math_images[r][k]) ELSE None,
      font    |-> << chosen_font[r], FontSize >>,
      text    |-> extracted_texts[r][k],
      lines   |-> TextLines(extracted_texts[r][k]) ]

\* Lines 139-156: one iteration of the second loop; the temporary file of the
\* formula image is created with delete=False.
Compose(r) ==
    /\ pc[r] = "compose"
    /\ LET k == i[r] + 1 IN
       /\ c' = [c EXCEPT ![r] = Append(@, OutputPage(r, k))]
       /\ tmp_files' = IF math_images[r][k] # None
                       THEN tmp_files \cup { << r, k >> }
                       ELSE tmp_files
       /\ i' = [i EXCEPT ![r] = k]
       /\ pc' = [pc EXCEPT ![r] = LoopNext(page_images[r], k, "compose", "save")]
    /\ UNCHANGED << shared, fonts, pdf_files, page_files, outputs, pdf_filename, font_path,
                    pages, page_images, extracted_texts, math_images, img_b64,
                    mp_res, chosen_font, flashes, posts, raised >>

\* Lines 158-160: c.save() writes the output document.
Save(r) ==
    /\ pc[r] = "save"
    /\ outputs' = [outputs EXCEPT ![OutName(pdf_filename[r])] =
                      [by |-> r, pages |-> c[r]]]
    /\ flashes' = [flashes EXCEPT ![r] = Append(@, "Conversion finished. Download below.")]
    /\ pc' = [pc EXCEPT ![r] = "redirect_download"]
    /\ UNCHANGED << shared, fonts, pdf_files, page_files, tmp_files, pdf_filename, font_path,
                    pages, i, page_images, extracted_texts, math_images, img_b64,
                    mp_res, chosen_font, c, posts, raised >>

Next ==
    \E r \in Reqs :
        \/ Upload(r)
        \/ Convert(r)
        \/ PageSave(r)
        \/ Ocr(r)
        \/ Encode(r)
        \/ Mathpix(r)
        \/ Render(r)
        \/ Assemble(r)
        \/ Compose(r)
        \/ Save(r)

\* One request.
Spec == Init /\ [][Next]_vars

\* Two concurrent requests.
SpecConcurrent == InitConcurrent /\ [][Next]_vars

\* One request, where every step that is enabled is eventually taken: the
\* handler runs on its own thread and every call it makes returns or raises
\* (requests.post has a timeout of 30 seconds).
SpecFair == Init /\ [][Next]_vars /\ WF_vars(Next)

----------------------------------------------------------------------------
(* Properties *)

Done(r) == pc[r] = "redirect_download"

InFirstLoop(r) == pc[r] \in {"page_save", "ocr", "encode", "mathpix", "render"}

AfterFirstLoop(r) == pc[r] \in {"assemble", "compose", "save", "redirect_download"}

FontChosen(r) == pc[r] \in {"compose", "save", "redirect_download"}

\* The document that upload() of request r has written.
Output(r) == outputs[OutName(pdf_filename[r])]

\* 0.45 * width
MaxW == RMul(A4[1], MaxWidthShare)

\* C1: a completed upload() of a document of N pages writes an output
\* document of exactly N pages, page k composed from the raster of page k,
\* the text extracted from it and its formula result; the three lists have
\* equal length after every iteration of the per-page loop, and the length
\* N once the loop has ended.
C1_PagesAligned ==
    \A r \in DOMAIN clients :
        /\ pc[r] \in {"page_save", "assemble"} =>
              /\ Len(page_images[r]) = i[r]
              /\ Len(extracted_texts[r]) = i[r]
              /\ Len(math_images[r]) = i[r]
        /\ AfterFirstLoop(r) =>
              /\ Len(pages[r]) = clients[r].doc.npages
              /\ Len(page_images[r]) = Len(pages[r])
              /\ Len(extracted_texts[r]) = Len(pages[r])
              /\ Len(math_images[r]) = Len(pages[r])
        /\ Done(r) =>
              /\ Output(r) # None
              /\ Output(r).by = r
              /\ Len(Output(r).pages) = clients[r].doc.npages
              /\ \A k \in 1..Len(Output(r).pages) :
                    LET page == Output(r).pages[k] IN
                    /\ page.image = [doc |-> r, page |-> k]
                    /\ page.text = extracted_texts[r][k]
                    /\ page.text.src = [doc |-> r, page |-> k]
                    /\ IF math_images[r][k] = None
                       THEN page.formula = None
                       ELSE /\ page.formula # None
                            /\ page.formula.image = math_images[r][k]
                            /\ page.formula.image.latex.of = [doc |-> r, page |-> k]

C1_Witness ==
    \E r \in DOMAIN clients :
        /\ Done(r)
        /\ Len(Output(r).pages) = MaxPages
        /\ math_images[r][1] = None
        /\ math_images[r][MaxPages] # None

\* C2: a page whose recognition gave no usable formula, or whose formula
\* could not be rendered, gets no formula image and the request goes on to
\* the next page; in the output document that page carries its image and
\* its text and no formula.
C2_Step ==
    \A r \in DOMAIN clients :
        /\ (pc[r] = "mathpix" /\ pc'[r] # "mathpix") => pc'[r] = "render"
        /\ (pc[r] = "render" /\ pc'[r] # "render") =>
              /\ pc'[r] \in {"page_save", "assemble"}
              /\ Len(math_images'[r]) = Len(math_images[r]) + 1
              /\ ~Usable(mp_res[r]) => math_images'[r][Len(math_images'[r])] = None

C2_Pages ==
    \A r \in DOMAIN clients :
        Done(r) =>
            \A k \in 1..Len(pages[r]) :
                math_images[r][k] = None =>
                    /\ k <= Len(Output(r).pages)
                    /\ Output(r).pages[k].image = pages[r][k]
                    /\ Output(r).pages[k].text = image_to_string(pages[r][k])
                    /\ Output(r).pages[k].formula = None

C3_NoCredentialsNoCall ==
    (MATHPIX_APP_ID \in {None, Str(<< >>)} \/ MATHPIX_APP_KEY \in {None, Str(<< >>)}) =>
        \A r \in DOMAIN clients :
            /\ posts[r] = 0
            /\ \A k \in 1..Len(math_images[r]) : math_images[r][k] = None
            /\ \A k \in 1..Len(c[r]) : c[r][k].formula = None

C3_Witness ==
    \E r \in DOMAIN clients :
        /\ MATHPIX_APP_ID # None
        /\ MATHPIX_APP_KEY = None
        /\ Done(r)
        /\ Len(math_images[r]) = MaxPages

\* C4: a request that has not reached the final save has written no output
\* document; when rasterization fails the request ends with the error
\* message flashed and the outputs directory untouched.
C4_NoPartialOutput ==
    \A r \in DOMAIN clients :
        /\ ~Done(r) => \A f \in DOMAIN outputs : outputs[f] = None \/ outputs[f].by # r
        /\ raised[r] = "convert_from_path" =>
              /\ pc[r] = "redirect_index"
              /\ flashes[r] = <<"Error converting PDF to images">>
              /\ \A f \in DOMAIN outputs : outputs[f] = None

C4_Witness ==
    \E r \in DOMAIN clients :
        /\ raised[r] = "convert_from_path"
        /\ pdf_files[pdf_filename[r]] = [doc |-> r]

StageOrder ==
    { <<"request", "redirect_index">>, <<"request", "convert">>,
      <<"convert", "redirect_index">>, <<"convert", "page_save">>,
      <<"convert", "assemble">>,
      <<"page_save", "ocr">>, <<"ocr", "error_500">>, <<"ocr", "encode">>,
      <<"encode", "mathpix">>, <<"mathpix", "render">>,
      <<"render", "page_save">>, <<"render", "assemble">>,
      <<"assemble", "compose">>, <<"assemble", "save">>,
      <<"compose", "compose">>, <<"compose", "save">>,
      <<"save", "redirect_download">> }

C5_Step ==
    \A r \in DOMAIN clients :
        /\ pc'[r] # pc[r] => << pc[r], pc'[r] >> \in StageOrder
        /\ raised'[r] # raised[r] =>
              \/ pc[r] = "convert" /\ raised'[r] = "convert_from_path"
              \/ pc[r] = "ocr" /\ raised'[r] = "image_to_string"

C5_Aborted ==
    \A r \in DOMAIN clients :
        /\ pc[r] = "error_500" <=> raised[r] = "image_to_string"
        /\ raised[r] = "convert_from_path" => pc[r] = "redirect_index"
        /\ Done(r) => Output(r) # None /\ Output(r).by = r

C6_Independent ==
    \A r \in DOMAIN clients :
        (Done(r) /\ \A q \in DOMAIN clients \ {r} : pdf_filename[q] # pdf_filename[r]) =>
            /\ Len(c[r]) = clients[r].doc.npages
            /\ \A k \in 1..Len(c[r]) :
                  /\ c[r][k].image = [doc |-> r, page |-> k]
                  /\ c[r][k].text = image_to_string([doc |-> r, page |-> k])

\* C7: when upload() has returned, none of the page_<k>.png files and none
\* of the temporary formula files it created exists.
C7_TempFilesDeleted ==
    \A r \in DOMAIN clients :
        pc[r] \in {"redirect_download", "error_500"} =>
            /\ \A k \in DOMAIN page_files : page_files[k] = None
            /\ \A t \in tmp_files : t[1] # r

\* C8: the chosen font is 'UserHand' exactly when a font was supplied and
\* its registration succeeded, and 'Helvetica' otherwise; a failed
\* registration does not end the request; every page of the document sets
\* the chosen font at 12pt.
C8_Step ==
    \A r \in DOMAIN clients :
        (pc[r] = "assemble" /\ pc'[r] # "assemble") =>
            /\ pc'[r] \in {"compose", "save"}
            /\ raised'[r] = "none"
            /\ (font_path[r] # None /\ fonts' = fonts) => chosen_font'[r] = "Helvetica"

C8_Font ==
    \A r \in DOMAIN clients :
        FontChosen(r) =>
            /\ chosen_font[r] =
                  IF font_path[r] # None /\ fonts # None THEN "UserHand" ELSE "Helvetica"
            /\ \A k \in 1..Len(c[r]) : c[r][k].font = << chosen_font[r], 12 >>
            /\ Done(r) => \A k \in 1..Len(Output(r).pages) :
                             Output(r).pages[k].font = << chosen_font[r], 12 >>

\* C8: the font registration never ends the request, and the chosen font is
\* the registered 'UserHand' or else 'Helvetica', the same on every page.
C8_FontFallback == [][C8_Step]_vars /\ []C8_Font

C8_Witness ==
    \E r \in DOMAIN clients :
        /\ Done(r)
        /\ font_path[r] # None
        /\ fonts = None
        /\ Len(Output(r).pages) = MaxPages
        /\ Output(r).pages[MaxPages].font = << "Helvetica", 12 >>

C10_InOrderOnce ==
    \A r \in DOMAIN clients :
        /\ \A k \in 1..Len(page_images[r]) : page_images[r][k] = k
        /\ \A k \in 1..Len(extracted_texts[r]) : extracted_texts[r][k].src = pages[r][k]
        /\ posts[r] <= Len(pages[r])
        /\ InFirstLoop(r) =>
              /\ i[r] < Len(pages[r])
              /\ Len(math_images[r]) = i[r]
              /\ Len(page_images[r]) = IF pc[r] = "page_save" THEN i[r] ELSE i[r] + 1
              /\ Len(extracted_texts[r]) =
                    IF pc[r] \in {"page_save", "ocr"} THEN i[r] ELSE i[r] + 1
              /\ posts[r] <= IF pc[r] = "render" THEN i[r] + 1 ELSE i[r]

C10_Witness ==
    \E r \in DOMAIN clients :
        /\ pc[r] = "render"
        /\ i[r] = MaxPages - 1
        /\ posts[r] = MaxPages

====
